---------------------------- MODULE Spec2Model ----------------------------
(***************************************************************************)
(* Model of the iterative extraction / reconciliation loop of              *)
(* DocumentCaptureAgent (src/document_capture.py) and of the document      *)
(* list of DocumentHub (src/input.py).                                     *)
(*                                                                         *)
(* Python values are encoded with one record shape per kind of value, so   *)
(* that any two encoded values can be compared:                            *)
(*   Optional[int] / Optional[bool] : <<>> is None (or an absent key),     *)
(*                                    <<x>> is x;                          *)
(*   value / explanation / raw match: [t, s, l], t the Python type         *)
(*                                    ("None", "bool", "int", "str",       *)
(*                                    "list"), s the characters of a str   *)
(*                                    (the digits of an int, the name of   *)
(*                                    a bool), l the elements of a list    *)
(*                                    (each [t, s]).                       *)
(* A str is the sequence of its characters (values) or of indivisible      *)
(* chunks of text (explanations).                                          *)
(***************************************************************************)
EXTENDS Integers, Sequences, FiniteSets, TLC

(***************************************************************************)
(* Bounds of the model.                                                    *)
(***************************************************************************)
\* number of files that can ever appear in the source folder
MaxFiles == 2

\* the fields of prepare_initial_state that the model follows (2 of the 16),
\* in the order of the all_fields dict
AllFieldsSeq == << "rut_comercio", "banco" >>

all_fields == { AllFieldsSeq[i] : i \in 1..Len(AllFieldsSeq) }

Files == 1..MaxFiles

(***************************************************************************)
(* Program constants.                                                      *)
(***************************************************************************)
CarryOverMinConfidence == 10
LowConfidenceThreshold == 80
ConfirmedConfidence == 100
UnstructuredConfidence == 30
max_iterations == 5

(***************************************************************************)
(* Encoding of Python values.                                              *)
(***************************************************************************)
None == << >>
Some(x) == << x >>

PyNone == [t |-> "None", s |-> << >>, l |-> << >>]
PyStr(cs) == [t |-> "str", s |-> cs, l |-> << >>]
PyList(es) == [t |-> "list", s |-> << >>, l |-> es]
PyBool(b) == [t |-> "bool", s |-> << IF b THEN "True" ELSE "False" >>, l |-> << >>]
PyInt(digits) == [t |-> "int", s |-> digits, l |-> << >>]
Elem(v) == [t |-> v.t, s |-> v.s]

\* truth value of an Optional[bool] (None is falsy)
Truthy(ob) == ob # None /\ ob[1]

\* bool(v) of a value
Bool(v) ==
    CASE v.t = "None" -> FALSE
      [] v.t = "bool" -> v.s = << "True" >>
      [] v.t = "int" -> v.s # << "0" >>
      [] v.t = "str" -> v.s # << >>
      [] v.t = "list" -> v.l # << >>

\* str.strip(): leading and trailing blanks removed
RECURSIVE LStrip(_)
LStrip(cs) == IF cs # << >> /\ Head(cs) = " " THEN LStrip(Tail(cs)) ELSE cs

RECURSIVE RStrip(_)
RStrip(cs) ==
    IF cs # << >> /\ cs[Len(cs)] = " " THEN RStrip(SubSeq(cs, 1, Len(cs) - 1)) ELSE cs

Strip(cs) == RStrip(LStrip(cs))

(***************************************************************************)
(* InformationNode (document_capture.py 24-29).                            *)
(***************************************************************************)
Node(m, v, e, c, hc) ==
    [match |-> m, value |-> v, explanation |-> e, confidence |-> c, has_conflict |-> hc]

\* the node curate_and_disambiguate creates for a field never found
EmptyResultNode == Node(FALSE, PyNone, PyNone, None, Some(FALSE))

\* the node normalize_fields creates for a missing entry
EmptyTemplateNode == Node(FALSE, PyNone, PyNone, Some(0), None)

UnstructuredMarker ==
    PyStr(<< "Modelo retorno valor sin estructura, asumiremos baja confianza" >>)


(***************************************************************************)
(* What the extraction call can answer for one requested field: the entry  *)
(* of the parsed JSON object.  kind "absent" is a missing key or a JSON    *)
(* null, "dict" a structured object, "scalar" any other JSON value.        *)
(***************************************************************************)
RawAbsent ==
    [kind |-> "absent", match |-> PyNone, value |-> PyNone,
     explanation |-> PyNone, confidence |-> None]

RawDict(m, v, e, c) ==
    [kind |-> "dict", match |-> m, value |-> v, explanation |-> e, confidence |-> c]

RawScalar(v) ==
    [kind |-> "scalar", match |-> PyNone, value |-> v,
     explanation |-> PyNone, confidence |-> None]

\* the answers the model draws in the loop
RawEntries ==
    { RawAbsent,
      RawDict(PyBool(FALSE), PyNone, PyNone, None),
      RawDict(PyBool(TRUE), PyStr(<<"A", "B">>), PyStr(<<"e1">>), Some(90)),
      RawDict(PyBool(TRUE), PyStr(<<"A", "B">>), PyNone, None),
      RawScalar(PyStr(<<" ", "C">>)) }

\* further answers, drawn where curate_and_disambiguate is applied to any input
MoreRawEntries ==
    { RawDict(PyBool(TRUE), PyStr(<<"A", "B">>), PyStr(<<"e2">>), Some(81)),
      RawDict(PyBool(TRUE),
              PyList(<< Elem(PyStr(<<"A", "B">>)), Elem(PyStr(<<"C">>)) >>),
              PyStr(<<"e4">>), Some(70)) }

\* variant of normalize_entry: a null confidence is passed through
normalize_entry_keeps_null(val) ==
    IF val.kind = "dict"
    THEN Node(IF val.match # PyNone THEN Bool(val.match) ELSE FALSE,
              val.value,
              val.explanation,
              val.confidence,
              None)
    ELSE IF val.kind = "absent"
    THEN [match |-> FALSE, value |-> PyNone, explanation |-> PyNone,
          confidence |-> Some(0), has_conflict |-> None]
    ELSE Node(TRUE, val.value,
              PyStr(<< "Modelo retorno valor sin estructura, asumiremos baja confianza" >>),
              Some(UnstructuredConfidence), None)

(***************************************************************************)
(* normalize_fields (document_capture.py 181-210), for one entry and for   *)
(* the whole response.                                                     *)
(***************************************************************************)
normalize_entry(val) ==
    IF val.kind = "dict"
    THEN Node(IF val.match # PyNone THEN Bool(val.match) ELSE FALSE,
              val.value,
              val.explanation,
              IF val.confidence # None THEN val.confidence ELSE Some(0),
              None)
    ELSE IF val.kind = "absent"
    THEN EmptyTemplateNode
    ELSE Node(TRUE, val.value, UnstructuredMarker, Some(UnstructuredConfidence), None)

normalize_fields(text, expected_fields) ==
    [field \in expected_fields |-> normalize_entry(text[field])]

\* answers drawn only where normalize_fields is applied to any response
OddRawEntries ==
    { \* "match": "false", a number as value, "confidence": 0
      RawDict(PyStr(<<"f", "a", "l", "s", "e">>), PyInt(<<"7">>), PyStr(<<"e3">>), Some(0)),
      \* no "match" key
      RawDict(PyNone, PyStr(<<"A", "B">>), PyStr(<<"e1">>), Some(50)),
      \* "match": 0
      RawDict(PyInt(<<"0">>), PyNone, PyNone, Some(50)),
      \* a bare false, a bare list
      RawScalar(PyBool(FALSE)),
      RawScalar(PyList(<< Elem(PyStr(<<"C">>)) >>)) }

\* the per-document nodes the answers normalise to
NormNodes == { normalize_entry(r) : r \in RawEntries \cup MoreRawEntries }

\* variant of get_fields_list: a matched field is kept when its node carries
\* a conflict
get_fields_list_conflicts(original_fields, results) ==
    { field_name \in original_fields :
        \/ field_name \notin DOMAIN results
        \/ ~results[field_name].match
        \/ results[field_name].has_conflict = Some(TRUE) }

\* variant of get_fields_list: a matched field is kept when its confidence is
\* below the carry-over minimum
get_fields_list_requery(original_fields, results) ==
    { field_name \in original_fields :
        \/ field_name \notin DOMAIN results
        \/ ~results[field_name].match
        \/ /\ results[field_name].confidence # None
           /\ results[field_name].confidence[1] < CarryOverMinConfidence }

(***************************************************************************)
(* get_fields_list (document_capture.py 159-169).  results is a function   *)
(* whose domain is the set of keys of the dict.                            *)
(***************************************************************************)
get_fields_list(original_fields, results) ==
    { field_name \in original_fields :
        field_name \notin DOMAIN results \/ ~results[field_name].match }

(***************************************************************************)
(* Exceptions.  A handler that raises aborts graph.invoke: the run ends    *)
(* in the exception, recorded with the handler and the field it was        *)
(* raised for.                                                             *)
(***************************************************************************)
NoException == [type |-> "", where |-> "", field |-> ""]
Raised(type, where, field) == [type |-> type, where |-> where, field |-> field]

(***************************************************************************)
(* curate_and_disambiguate (document_capture.py 256-360), one field.       *)
(* extracted is the extracted_information dict in insertion order: a       *)
(* sequence of [id, fields], fields the normalised response of a document. *)
(***************************************************************************)
RECURSIVE SumConf(_)
SumConf(hits) == IF hits = << >> THEN 0 ELSE Head(hits).confidence[1] + SumConf(Tail(hits))

RECURSIVE MinConf(_)
MinConf(hits) ==
    IF Len(hits) = 1 THEN Head(hits).confidence[1]
    ELSE LET m == MinConf(Tail(hits))
             c == Head(hits).confidence[1]
         IN IF c < m THEN c ELSE m

\* ", ".join(explanations), every explanation a str
RECURSIVE JoinExplanations(_)
JoinExplanations(hits) ==
    IF Len(hits) = 1 THEN Head(hits).explanation.s
    ELSE Head(hits).explanation.s \o << ", " >> \o JoinExplanations(Tail(hits))

\* variant of carry_over_test: the threshold of the low-confidence pass is
\* used instead of the carry-over minimum
carry_over_test_threshold(existing_results, field_name) ==
    IF field_name \notin DOMAIN existing_results THEN "merge"
    ELSE LET existing_field_result == existing_results[field_name]
         IN IF ~existing_field_result.match THEN "merge"
            ELSE IF Truthy(existing_field_result.has_conflict) THEN "merge"
            ELSE IF existing_field_result.confidence = None THEN "TypeError"
            ELSE IF existing_field_result.confidence[1] >= LowConfidenceThreshold
                 THEN "carry"
                 ELSE "merge"

\* lines 278-281: the test that keeps a previous result as it is
carry_over_test(existing_results, field_name) ==
    IF field_name \notin DOMAIN existing_results THEN "merge"
    ELSE LET existing_field_result == existing_results[field_name]
         IN IF ~existing_field_result.match THEN "merge"
            ELSE IF Truthy(existing_field_result.has_conflict) THEN "merge"
            ELSE IF existing_field_result.confidence = None THEN "TypeError"
            ELSE IF existing_field_result.confidence[1] >= CarryOverMinConfidence
                 THEN "carry"
                 ELSE "merge"

\* variant of collect_hits: an entry counts as a hit whatever its match is
collect_hits_unmatched(extracted, field_name) ==
    LET IsHit(doc) == field_name \in DOMAIN doc.fields
        docs == SelectSeq(extracted, IsHit)
    IN [i \in 1..Len(docs) |-> docs[i].fields[field_name]]

\* lines 289-295: the hits of a field, in document order
collect_hits(extracted, field_name) ==
    LET IsHit(doc) == /\ field_name \in DOMAIN doc.fields
                      /\ doc.fields[field_name].match
        docs == SelectSeq(extracted, IsHit)
    IN [i \in 1..Len(docs) |-> docs[i].fields[field_name]]

\* lines 322-342: all hits carry the same value
merge_unanimous(hits) ==
    IF \E i \in 1..Len(hits) : hits[i].confidence = None \/ hits[i].explanation.t # "str"
    THEN [raised |-> TRUE, node |-> EmptyResultNode]
    ELSE [raised |-> FALSE,
          node |-> Node(TRUE,
                        hits[1].value,
                        PyStr(JoinExplanations(hits)),
                        Some(SumConf(hits) \div Len(hits)),
                        Some(FALSE))]

\* lines 344-356: the hits carry different values
merge_conflict(hits) ==
    IF \E i \in 1..Len(hits) : hits[i].confidence = None
    THEN [raised |-> TRUE, node |-> EmptyResultNode]
    ELSE [raised |-> FALSE,
          node |-> Node(TRUE,
                        PyList([i \in 1..Len(hits) |-> Elem(hits[i].value)]),
                        PyList([i \in 1..Len(hits) |-> Elem(hits[i].explanation)]),
                        Some(MinConf(hits)),
                        Some(TRUE))]

\* variant of merge_hits: a field without hits always gets the empty node
merge_hits_forgetful(existing_results, hits, field_name) ==
    IF hits = << >>
    THEN [raised |-> FALSE, node |-> EmptyResultNode]
    ELSE IF Len(hits) = 1
    THEN [raised |-> FALSE, node |-> hits[1]]
    ELSE IF \E i \in 1..Len(hits) : hits[i].value.t = "list"
    THEN [raised |-> TRUE, node |-> EmptyResultNode]
    ELSE IF \A i \in 1..Len(hits) : hits[i].value = hits[1].value
    THEN merge_unanimous(hits)
    ELSE merge_conflict(hits)

\* lines 297-356: the node built from the hits when the field is not carried over
merge_hits(existing_results, hits, field_name) ==
    IF hits = << >>
    THEN [raised |-> FALSE,
          node |-> IF field_name \in DOMAIN existing_results
                   THEN existing_results[field_name]
                   ELSE EmptyResultNode]
    ELSE IF Len(hits) = 1
    THEN [raised |-> FALSE, node |-> hits[1]]
    \* line 323: a set of the values; a list is unhashable
    ELSE IF \E i \in 1..Len(hits) : hits[i].value.t = "list"
    THEN [raised |-> TRUE, node |-> EmptyResultNode]
    ELSE IF \A i \in 1..Len(hits) : hits[i].value = hits[1].value
    THEN merge_unanimous(hits)
    ELSE merge_conflict(hits)

\* lines 272-356: the body of the loop over all_fields, for one field
curate_field(existing_results, extracted, field_name) ==
    LET test == carry_over_test(existing_results, field_name)
    IN IF test = "carry"
       THEN [raised |-> FALSE, node |-> existing_results[field_name]]
       ELSE IF test = "TypeError"
       THEN [raised |-> TRUE, node |-> EmptyResultNode]
       ELSE merge_hits(existing_results, collect_hits(extracted, field_name), field_name)

(***************************************************************************)
(* enough_confidence (document_capture.py 363-508).                        *)
(***************************************************************************)
\* what the user can type as a new value
NewValues == { << "Z" >> }

IsMultiValue(value) == value.t = "list" /\ Len(value.l) > 1

\* find_low_confidence_fields, lines 400-425 (threshold 80)
find_low_confidence_fields(res) ==
    { field \in DOMAIN res :
        /\ ~IsMultiValue(res[field].value)
        /\ res[field].confidence # None
        /\ res[field].confidence[1] # 0
        /\ res[field].confidence[1] < LowConfidenceThreshold }

\* find_multiple_value_fields, lines 452-475
find_multiple_value_fields(res) ==
    { field \in DOMAIN res : IsMultiValue(res[field].value) }

\* An answer is what the user types at the prompts of one field: typed, the
\* selections in the order typed (Some(k) the text of the integer k, None any
\* other text), and new_value, the text typed when a new value is asked for.
\*
\* solve_low_confidence, lines 427-448: the loop reads a selection at each
\* turn; "1" keeps the value, "2" reads a new one, any other selection prints
\* a message and the loop asks again.
RECURSIVE solve_low_confidence(_, _)
solve_low_confidence(value, answer) ==
    IF answer.typed = << >>
    THEN [outcome |-> "hang", value |-> PyNone]
    ELSE LET option == Head(answer.typed)
         IN IF option = Some(1)
            THEN [outcome |-> "return", value |-> value]
            ELSE IF option = Some(2)
            THEN [outcome |-> "return", value |-> PyStr(answer.new_value)]
            ELSE solve_low_confidence(value, [answer EXCEPT !.typed = Tail(@)])

\* solve_multiple_values, lines 478-508.  The selection is read once, before
\* the loop (line 497), and int() raises on a text that is not an integer.
\* The loop variable `value` of lines 488-495 is left bound to the last
\* candidate, and line 503 indexes it.
solve_multiple_values(values, answer) ==
    LET position == Len(values) + 1
        value == values[Len(values)]
        option == Head(answer.typed)
    IN IF option = None
       THEN [outcome |-> "ValueError", value |-> PyNone]
       ELSE LET option_int == option[1]
            IN IF option_int > 0 /\ option_int < position
               THEN IF value.t # "str"
                    THEN [outcome |-> "TypeError", value |-> PyNone]
                    ELSE IF option_int > Len(value.s)
                    THEN [outcome |-> "IndexError", value |-> PyNone]
                    ELSE [outcome |-> "return", value |-> PyStr(<< value.s[option_int] >>)]
               ELSE IF option_int = position
               THEN [outcome |-> "return", value |-> PyStr(answer.new_value)]
               \* lines 507-508: nothing changes option_int, the loop never ends
               ELSE [outcome |-> "hang", value |-> PyNone]

\* variant of resolve_item: the confidence of the node is left as it was
resolve_item_unconfirmed(res, field, pass, answers) ==
    LET solved == IF pass = "low"
                  THEN solve_low_confidence(res[field].value, answers[field])
                  ELSE solve_multiple_values(res[field].value.l, answers[field])
    IN IF solved.outcome # "return"
       THEN [outcome |-> solved.outcome, results |-> res]
       ELSE IF solved.value.t # "str"
       THEN [outcome |-> "AttributeError", results |-> res]
       ELSE [outcome |-> "return",
             results |-> [res EXCEPT ![field] =
                            [@ EXCEPT !.value = PyStr(Strip(solved.value.s))]]]

\* variant of resolve_item: the resolution also clears has_conflict
resolve_item_clears_conflict(res, field, pass, answers) ==
    LET solved == IF pass = "low"
                  THEN solve_low_confidence(res[field].value, answers[field])
                  ELSE solve_multiple_values(res[field].value.l, answers[field])
    IN IF solved.outcome # "return"
       THEN [outcome |-> solved.outcome, results |-> res]
       ELSE IF solved.value.t # "str"
       THEN [outcome |-> "AttributeError", results |-> res]
       ELSE [outcome |-> "return",
             results |-> [res EXCEPT ![field] =
                            [@ EXCEPT !.value = PyStr(Strip(solved.value.s)),
                                      !.confidence = Some(ConfirmedConfidence),
                                      !.has_conflict = Some(FALSE)]]]

\* lines 378-384 and 389-395 for one item: solve, strip, store
resolve_item(res, field, pass, answers) ==
    LET solved == IF pass = "low"
                  THEN solve_low_confidence(res[field].value, answers[field])
                  ELSE solve_multiple_values(res[field].value.l, answers[field])
    IN IF solved.outcome # "return"
       THEN [outcome |-> solved.outcome, results |-> res]
       \* confirmed_value.strip() of a value that is not a str
       ELSE IF solved.value.t # "str"
       THEN [outcome |-> "AttributeError", results |-> res]
       ELSE [outcome |-> "return",
             results |-> [res EXCEPT ![field] =
                            [@ EXCEPT !.value = PyStr(Strip(solved.value.s)),
                                      !.confidence = Some(ConfirmedConfidence)]]]

\* the two loops of lines 376-395 over the items found at lines 368-369;
\* read is the set of fields whose prompt was reached
RECURSIVE resolve_items(_, _, _)
resolve_items(res, items, answers) ==
    IF items = << >>
    THEN [outcome |-> "return", field |-> "", results |-> res, read |-> {}]
    ELSE LET item == Head(items)
             r == resolve_item(res, item.field, item.pass, answers)
         IN IF r.outcome # "return"
            THEN [outcome |-> r.outcome, field |-> item.field, results |-> r.results,
                  read |-> {item.field}]
            ELSE [resolve_items(r.results, Tail(items), answers)
                    EXCEPT !.read = @ \cup {item.field}]

\* the items of one pass, in the order of the results dict (that of all_fields)
ItemsOf(fields, pass) ==
    LET In(i) == AllFieldsSeq[i] \in fields
        idx == SelectSeq([i \in 1..Len(AllFieldsSeq) |-> i], In)
    IN [k \in 1..Len(idx) |-> [field |-> AllFieldsSeq[idx[k]], pass |-> pass]]

\* what the user can answer to the prompts of one field: a selection, or an
\* invalid selection followed by a valid one
Answers(res, field) ==
    IF IsMultiValue(res[field].value)
    THEN LET n == Len(res[field].value.l)
         IN { [typed |-> t, new_value |-> v] :
                t \in { << o >> : o \in {None} \cup { Some(k) : k \in 0..(n + 2) } }
                      \cup { << None, Some(1) >>, << Some(n + 2), Some(n + 1) >> },
                v \in NewValues }
    ELSE { [typed |-> t, new_value |-> v] :
             t \in { << Some(1) >>, << Some(2) >>, << Some(3), Some(1) >>,
                     << None, Some(2) >> },
             v \in NewValues }

(***************************************************************************)
(* DocumentHub (input.py 61-120).                                          *)
(***************************************************************************)
\* variant of create_document_entry: the entry is created as processed
create_document_entry_processed(filename, gemini_name) ==
    [id |-> << "doc_", filename >>, filename |-> filename, reference |-> gemini_name,
     processed_state |-> "processed"]

\* _create_document_entry, lines 111-120
create_document_entry(filename, gemini_name) ==
    [id |-> << "doc_", filename >>, filename |-> filename, reference |-> gemini_name,
     processed_state |-> "pending"]

\* the name files.upload gives to the upload of a file (line 83)
uploaded_name(filename) == << "files/", filename >>

\* variant of load_documents: the test of line 70 is left out
RECURSIVE load_documents_unchecked(_, _, _)
load_documents_unchecked(list, listing, accepted) ==
    IF listing = << >> THEN list
    ELSE LET filename == Head(listing)
         IN load_documents_unchecked(
               IF filename \notin accepted
               THEN list
               ELSE Append(list, create_document_entry(filename, uploaded_name(filename))),
               Tail(listing), accepted)

\* load_documents, lines 61-108.  listing is the result of glob, in its
\* order; accepted are the files of a supported type whose upload succeeds
\* (any other file is skipped, lines 98-100 and 106-108).
RECURSIVE load_documents(_, _, _)
load_documents(list, listing, accepted) ==
    IF listing = << >> THEN list
    ELSE LET filename == Head(listing)
             known == \E i \in 1..Len(list) : list[i].filename = filename
         IN load_documents(IF known \/ filename \notin accepted
                           THEN list
                           ELSE Append(list, create_document_entry(filename,
                                                                   uploaded_name(filename))),
                           Tail(listing), accepted)

\* What a poll of the source folder can find.  File names carry no meaning,
\* so the files are numbered in the order in which they enter the list: a
\* poll lists the known files and the next j files, and the upload of the
\* last of them may fail.
Polls(list) ==
    UNION { { [listing |-> [i \in 1..(Len(list) + j) |-> i],
               accepted |-> (1..(Len(list) + j)) \ rejected] :
                 rejected \in { {}, {Len(list) + j} } } :
            j \in 0..(MaxFiles - Len(list)) }

\* the files that can reach the source folder over a long run, and between
\* two polls
MaxArrivals == 5
MaxNew == 2

\* What a poll of the source folder can find in a long run: the known files
\* and the next j files, all of a supported type.
ArrivalPolls(list) ==
    { [listing |-> [i \in 1..(Len(list) + j) |-> i],
       accepted |-> 1..(Len(list) + j)] :
         j \in 0..(IF MaxArrivals - Len(list) < MaxNew
                   THEN MaxArrivals - Len(list) ELSE MaxNew) }

\* what a poll can find, by the kind of run
SourcePolls(run, list) == IF run = "long" THEN ArrivalPolls(list) ELSE Polls(list)

(***************************************************************************)
(* State.                                                                  *)
(***************************************************************************)
VARIABLES
    pc,                     \* the node of the graph about to run, or how the run ended
    document_list,          \* DocumentHub.document_list = state["documents"]
    fields_to_extract,      \* state["fields_to_extract"]
    extracted_information,  \* state["extracted_information"], in insertion order
    results,                \* state["results"]
    iteration,              \* state["iteration"]
    sufficient_info,        \* state["sufficient_info"]
    exception,              \* how the run ended, if a handler raised or never returned
    existing_results,       \* the results the last curate_and_disambiguate read
    queries,                \* per file, the extraction calls made for it
    content_json,           \* the last response parsed by iterate_and_extract
    stdin,                  \* per field, what the last enough_confidence read from input()
    source_folder           \* what glob listed in the last load_documents

vars == << pc, document_list, fields_to_extract, extracted_information, results,
           iteration, sufficient_info, exception, existing_results, queries,
           content_json, stdin, source_folder >>

(***************************************************************************)
(* The graph of _build_graph (document_capture.py 54-89).                  *)
(***************************************************************************)
entry_point == "iterate_and_extract"

\* variant of edge: curate_and_disambiguate is wired to enough_information
edge_skips_confidence(node) ==
    CASE node = "iterate_and_extract" -> "curate_and_disambiguate"
      [] node = "curate_and_disambiguate" -> "enough_information"
      [] node = "enough_confidence" -> "enough_information"
      [] node = "final_approval" -> "END"

\* add_edge, lines 72-77
edge(node) ==
    CASE node = "iterate_and_extract" -> "curate_and_disambiguate"
      [] node = "curate_and_disambiguate" -> "enough_confidence"
      [] node = "enough_confidence" -> "enough_information"
      [] node = "final_approval" -> "END"

\* add_conditional_edges, lines 80-87
conditional_edge(route) ==
    IF route = "sufficient" THEN "final_approval" ELSE "iterate_and_extract"

\* variant of route_decision: no forced stop
route_decision_no_forced_stop(sufficient, amount_of_documents, amount_after) ==
    IF sufficient THEN "sufficient" ELSE "not_sufficient"

\* variant of route_decision: the comparison of the two lengths inverted
route_decision_inverted(sufficient, amount_of_documents, amount_after) ==
    IF sufficient THEN "sufficient"
    ELSE IF amount_after # amount_of_documents THEN "sufficient"
    ELSE "not_sufficient"

\* variant of route_decision: the loop is left once the iteration counter
\* has reached max_iterations
route_decision_bounded(sufficient, amount_of_documents, amount_after) ==
    IF sufficient THEN "sufficient"
    ELSE IF amount_after = amount_of_documents THEN "sufficient"
    ELSE IF iteration >= max_iterations THEN "sufficient"
    ELSE "not_sufficient"

\* the decision of route_sufficient_info, lines 543-558, from the flag and
\* the length of the document list before and after load_documents
route_decision(sufficient, amount_of_documents, amount_after) ==
    IF sufficient THEN "sufficient"
    ELSE IF amount_after = amount_of_documents THEN "sufficient"
    ELSE "not_sufficient"

\* variant of all_matched: one matched field is enough
any_matched(res) == \E field_name \in DOMAIN res : res[field_name].match

\* enough_information, lines 528-538
all_matched(res) == \A field_name \in DOMAIN res : res[field_name].match

EmptyDict == [f \in {} |-> EmptyResultNode]

\* content_json: the value json.loads returned, a JSON object (its entries
\* per requested field) or any other JSON value; unbound before line 143
Unbound == [kind |-> "unbound", entries |-> [f \in {} |-> RawAbsent]]
JsonObject(entries) == [kind |-> "object", entries |-> entries]
JsonOther == [kind |-> "other", entries |-> [f \in {} |-> RawAbsent]]

NoInput == [f \in {} |-> [typed |-> << >>, new_value |-> << >>]]

\* the state of the agent when it is constructed, before prepare_initial_state
Init ==
    /\ pc = "prepare_initial_state"
    /\ document_list = << >>
    /\ fields_to_extract = all_fields
    /\ extracted_information = << >>
    /\ results = EmptyDict
    /\ iteration = 0
    /\ sufficient_info = FALSE
    /\ exception = NoException
    /\ existing_results = EmptyDict
    /\ queries = [f \in Files |-> 0]
    /\ content_json = Unbound
    /\ stdin = NoInput
    /\ source_folder = << >>

\* the indices of a set, ascending
Ascending(S, n) ==
    LET In(i) == i \in S IN SelectSeq([i \in 1..n |-> i], In)

\* prepare_initial_state, lines 588-639: the first load_documents, in a run
\* of the given kind
prepare_initial_state_in(run) ==
    /\ pc = "prepare_initial_state"
    /\ \E poll \in SourcePolls(run, document_list) :
          /\ document_list' = load_documents(document_list, poll.listing, poll.accepted)
          /\ source_folder' = poll.listing
    /\ pc' = entry_point
    /\ UNCHANGED << fields_to_extract, extracted_information, results, iteration,
                    sufficient_info, exception, existing_results, queries,
                    content_json, stdin >>

prepare_initial_state == prepare_initial_state_in("short")

(***************************************************************************)
(* The handlers of the graph.                                              *)
(***************************************************************************)
\* line 119: the documents the loop does not skip
is_pending(document) == ~(document.processed_state # "pending")

\* variant of mark_processed: the state of the document is left as it is
mark_processed_forgotten(document) == document

\* variant of recycle: the mapping of the previous pass is kept
recycle_keeps(mapping) == mapping

\* line 110: the extraction mapping is emptied before the documents are read
recycle(mapping) == << >>

\* line 147
mark_processed(document) == [document EXCEPT !.processed_state = "processed"]

\* iterate_and_extract, lines 91-156.  The extraction calls of the first k
\* pending documents return a JSON object; if k is not all of them, the call
\* of the next one raises (files.get or generate_content: TransportError;
\* json.loads: ParseError; text.get of a JSON value that is not an object:
\* AttributeError), nothing catches it and the run ends.  entries is what
\* the extraction call can answer for a field.
iterate_and_extract_of(entries) ==
    /\ pc = "iterate_and_extract"
    /\ LET fields == get_fields_list(fields_to_extract, results)
           n == Len(document_list)
           pending == Ascending({ i \in 1..n : is_pending(document_list[i]) }, n)
       IN \E k \in 0..Len(pending) :
          \E failure \in (IF k = Len(pending) THEN {"none"}
                          ELSE {"TransportError", "ParseError", "AttributeError"}) :
          \E answers \in [1..k -> [fields -> entries]] :
             LET done == { pending[j] : j \in 1..k }
                 asked == done \cup (IF k < Len(pending) THEN {pending[k + 1]} ELSE {})
             IN /\ fields_to_extract' = fields
                /\ document_list' =
                     [i \in 1..n |-> IF i \in done
                                     THEN mark_processed(document_list[i])
                                     ELSE document_list[i]]
                /\ extracted_information' =
                     recycle(extracted_information) \o
                     [j \in 1..k |-> [id |-> document_list[pending[j]].id,
                                      fields |-> normalize_fields(answers[j], fields)]]
                /\ queries' =
                     [f \in DOMAIN queries |->
                        IF \E i \in asked : document_list[i].filename = f
                        THEN queries[f] + 1 ELSE queries[f]]
                /\ content_json' =
                     IF failure = "AttributeError" THEN JsonOther
                     ELSE IF k >= 1 THEN JsonObject(answers[k])
                     ELSE Unbound
                /\ IF failure = "none"
                   THEN pc' = edge(pc) /\ exception' = exception
                   ELSE pc' = "raised"
                        /\ exception' = Raised(failure, "iterate_and_extract", "")
    /\ UNCHANGED << results, iteration, sufficient_info, existing_results, stdin,
                    source_folder >>

iterate_and_extract == iterate_and_extract_of(RawEntries)

\* variant of reconciled_fields: only the fields requested in this pass
reconciled_fields_requested(all, requested) == requested

\* lines 263 and 272: the fields curate_and_disambiguate makes a node for
reconciled_fields(all, requested) == all

\* curate_and_disambiguate, lines 256-360: the loop over all_fields, in the
\* order of the dict; the first field whose merge raises ends the run and
\* state["results"] is not assigned.
curate_and_disambiguate ==
    /\ pc = "curate_and_disambiguate"
    /\ existing_results' = results
    /\ LET fields == reconciled_fields(all_fields, fields_to_extract)
           merged == [f \in fields |-> curate_field(results, extracted_information, f)]
           failing == { i \in 1..Len(AllFieldsSeq) :
                          AllFieldsSeq[i] \in fields /\ merged[AllFieldsSeq[i]].raised }
       IN IF failing = {}
          THEN /\ results' = [f \in fields |-> merged[f].node]
               /\ pc' = edge(pc)
               /\ exception' = exception
          ELSE /\ results' = results
               /\ pc' = "raised"
               /\ exception' = Raised("TypeError", "curate_and_disambiguate",
                                      AllFieldsSeq[CHOOSE i \in failing :
                                                     \A j \in failing : i <= j])
    /\ UNCHANGED << document_list, fields_to_extract, extracted_information,
                    iteration, sufficient_info, queries, content_json, stdin,
                    source_folder >>

\* line 319 stores the dict of the only hit itself, so the assignments of
\* lines 381-395 to results[field] are also seen in extracted_information
shared_with_results(extracted, field_name) ==
    /\ carry_over_test(existing_results, field_name) # "carry"
    /\ Len(collect_hits(extracted, field_name)) = 1

\* enough_confidence, lines 363-397
enough_confidence ==
    /\ pc = "enough_confidence"
    /\ LET low_confidence == find_low_confidence_fields(results)
           multiple_values == find_multiple_value_fields(results)
           items == ItemsOf(low_confidence, "low") \o ItemsOf(multiple_values, "multi")
           asked == low_confidence \cup multiple_values
       IN \E answers \in { a \in [asked -> UNION { Answers(results, f) : f \in asked }] :
                             \A f \in asked : a[f] \in Answers(results, f) } :
             LET r == resolve_items(results, items, answers)
             IN /\ results' = r.results
                /\ stdin' = [f \in r.read |-> answers[f]]
                /\ extracted_information' =
                     [j \in 1..Len(extracted_information) |->
                        [extracted_information[j] EXCEPT !.fields =
                           [f \in DOMAIN @ |->
                              IF @[f].match /\ shared_with_results(extracted_information, f)
                              THEN r.results[f] ELSE @[f]]]]
                /\ IF r.outcome = "return"
                   THEN pc' = edge(pc) /\ exception' = exception
                   ELSE IF r.outcome = "hang"
                   THEN pc' = "hung"
                        /\ exception' = Raised("", "enough_confidence", r.field)
                   ELSE pc' = "raised"
                        /\ exception' = Raised(r.outcome, "enough_confidence", r.field)
    /\ UNCHANGED << document_list, fields_to_extract, iteration, sufficient_info,
                    existing_results, queries, content_json, source_folder >>

\* variant of enough_information: the pass is not counted
enough_information_uncounted ==
    /\ pc = "enough_information"
    /\ iteration' = iteration
    /\ sufficient_info' = all_matched(results)
    /\ pc' = "route_sufficient_info"
    /\ UNCHANGED << document_list, fields_to_extract, extracted_information, results,
                    exception, existing_results, queries, content_json, stdin,
                    source_folder >>

\* enough_information, lines 521-540
enough_information ==
    /\ pc = "enough_information"
    /\ iteration' = iteration + 1
    /\ sufficient_info' = all_matched(results)
    /\ pc' = "route_sufficient_info"
    /\ UNCHANGED << document_list, fields_to_extract, extracted_information, results,
                    exception, existing_results, queries, content_json, stdin,
                    source_folder >>

\* route_sufficient_info, lines 543-558, and the conditional edge it selects,
\* in a run of the given kind
route_sufficient_info_in(run) ==
    /\ pc = "route_sufficient_info"
    /\ IF sufficient_info
       THEN /\ document_list' = document_list
            /\ source_folder' = source_folder
            /\ pc' = conditional_edge(route_decision(sufficient_info,
                                                     Len(document_list),
                                                     Len(document_list)))
       ELSE \E poll \in SourcePolls(run, document_list) :
               /\ document_list' = load_documents(document_list, poll.listing, poll.accepted)
               /\ source_folder' = poll.listing
               /\ pc' = conditional_edge(route_decision(sufficient_info,
                                                        Len(document_list),
                                                        Len(document_list')))
    /\ UNCHANGED << fields_to_extract, extracted_information, results, iteration,
                    sufficient_info, exception, existing_results, queries,
                    content_json, stdin >>

route_sufficient_info == route_sufficient_info_in("short")

\* final_approval, lines 563-573
final_approval ==
    /\ pc = "final_approval"
    /\ pc' = edge(pc)
    /\ UNCHANGED << document_list, fields_to_extract, extracted_information, results,
                    iteration, sufficient_info, exception, existing_results, queries,
                    content_json, stdin, source_folder >>

Next ==
    \/ prepare_initial_state
    \/ iterate_and_extract
    \/ curate_and_disambiguate
    \/ enough_confidence
    \/ enough_information
    \/ route_sufficient_info
    \/ final_approval

Spec == Init /\ [][Next]_vars

(***************************************************************************)
(* FairSpec: the loop under the scheduling of graph.invoke, which runs     *)
(* the next node as soon as the previous one has returned.                 *)
(***************************************************************************)
FairSpec == Spec /\ WF_vars(Next)

(***************************************************************************)
(* SpecCurate: curate_and_disambiguate applied once to any previous        *)
(* results and any extraction mapping of up to MaxHitDocs documents.       *)
(***************************************************************************)
\* number of documents of the extraction mapping
MaxHitDocs == 2

\* nodes that earlier iterations can have left in the results
PrevNodes ==
    { EmptyResultNode,
      \* a single hit, stored as it came from normalize_fields
      normalize_entry(RawDict(PyBool(TRUE), PyStr(<<"A", "B">>), PyStr(<<"e1">>), Some(90))),
      \* a single hit whose confidence was null
      normalize_entry(RawDict(PyBool(TRUE), PyStr(<<"A", "B">>), PyNone, None)),
      \* a unanimous merge
      Node(TRUE, PyStr(<<"C">>), PyStr(<<"e1", ", ", "e2">>), Some(12), Some(FALSE)),
      \* a conflict after its resolution by enough_confidence
      Node(TRUE, PyStr(<<"Z">>),
           PyList(<< Elem(PyStr(<<"e1">>)), Elem(UnstructuredMarker) >>),
           Some(ConfirmedConfidence), Some(TRUE)) }

PrevResults == UNION { [F -> PrevNodes] : F \in SUBSET all_fields }

ExtractionMappings ==
    UNION { [1..n -> [id : {<< "doc_", 0 >>}, fields : [all_fields -> NormNodes]]] :
            n \in 0..MaxHitDocs }

InitCurate ==
    /\ pc = "curate_and_disambiguate"
    /\ document_list = << >>
    /\ fields_to_extract = all_fields
    /\ \E m \in ExtractionMappings :
          extracted_information =
             [j \in 1..Len(m) |-> [m[j] EXCEPT !.id = << "doc_", j >>]]
    /\ results \in PrevResults
    /\ iteration = 0
    /\ sufficient_info = FALSE
    /\ exception = NoException
    /\ existing_results = EmptyDict
    /\ queries = [f \in Files |-> 0]
    /\ content_json = Unbound
    /\ stdin = NoInput
    /\ source_folder = << >>

NextCurate == curate_and_disambiguate

SpecCurate == InitCurate /\ [][NextCurate]_vars

(***************************************************************************)
(* Properties.                                                             *)
(***************************************************************************)
\* curate_and_disambiguate has run (it returned or raised)
CurateDone == pc # "curate_and_disambiguate" /\ pc # "prepare_initial_state"
CurateReturned == pc = "enough_confidence"

\* the carry-over condition of the specification; a node without the
\* has_conflict key counts as has_conflict = false
Settled(node) ==
    /\ node.match
    /\ node.has_conflict # Some(TRUE)
    /\ node.confidence # None
    /\ node.confidence[1] >= 10

NotCarried(f) == ~(f \in DOMAIN existing_results /\ Settled(existing_results[f]))

HitsOf(f) == collect_hits(extracted_information, f)

SameValues(hits) == \A i, j \in 1..Len(hits) : hits[i].value = hits[j].value

\* C1: every field whose previous node has match = true, has_conflict = false
\* and confidence >= 10 has that same node, unchanged, in the results after
\* curate_and_disambiguate, whatever hits the extraction mapping holds for it;
\* and the handler never raises on such a field.
C1_CarryOver ==
    CurateDone =>
        \A f \in DOMAIN existing_results :
            Settled(existing_results[f]) =>
                /\ f \in DOMAIN results
                /\ results[f] = existing_results[f]
                /\ exception.field # f

\* a settled field with two hits of different values, and the handler returned
C1_Witness ==
    /\ CurateReturned
    /\ \E f \in DOMAIN existing_results :
          /\ Settled(existing_results[f])
          /\ existing_results[f].has_conflict = Some(FALSE)
          /\ Len(HitsOf(f)) = 2
          /\ ~SameValues(HitsOf(f))

\* C2: a field that is not carried over and has two or more hits whose values
\* are not all equal gets match = true, has_conflict = true, the minimum
\* confidence of the hits, the list of the values of the hits in document
\* order and the parallel list of their explanations.  (A run that raised on
\* another field is not counted against the field.)
C2_ConflictingMerge ==
    CurateDone =>
        \A f \in all_fields :
            ( /\ NotCarried(f)
              /\ Len(HitsOf(f)) >= 2
              /\ ~SameValues(HitsOf(f))
              /\ (pc = "raised" => exception.field = f) )
            => /\ CurateReturned
               /\ results[f] =
                    Node(TRUE,
                         PyList([i \in 1..Len(HitsOf(f)) |-> Elem(HitsOf(f)[i].value)]),
                         PyList([i \in 1..Len(HitsOf(f)) |-> Elem(HitsOf(f)[i].explanation)]),
                         Some(MinConf(HitsOf(f))),
                         Some(TRUE))

\* C3: a field that is not carried over and has two or more hits that all
\* carry the same value gets match = true, that value, has_conflict = false,
\* the mean of the confidences truncated to an integer, and the explanations
\* joined by ", " in document order.  (A run that raised on another field is
\* not counted against the field.)
C3_UnanimousMerge ==
    CurateDone =>
        \A f \in all_fields :
            ( /\ NotCarried(f)
              /\ Len(HitsOf(f)) >= 2
              /\ SameValues(HitsOf(f))
              /\ (pc = "raised" => exception.field = f) )
            => /\ CurateReturned
               /\ results[f] =
                    Node(TRUE,
                         HitsOf(f)[1].value,
                         PyStr(JoinExplanations(HitsOf(f))),
                         Some(SumConf(HitsOf(f)) \div Len(HitsOf(f))),
                         Some(FALSE))

\* the canonical empty node of the specification
IsCanonicalEmpty(node) ==
    /\ node.match = FALSE
    /\ node.value = PyNone
    /\ node.explanation = PyNone
    /\ node.confidence \in { None, Some(0) }
    /\ node.has_conflict = Some(FALSE)

\* C4: for a field that is not carried over and has no hit, the handler never
\* raises on that field, and when it returns the field has its previous node
\* if there was one and the canonical empty node otherwise.
C4_NoHit ==
    CurateDone =>
        \A f \in all_fields :
            (NotCarried(f) /\ HitsOf(f) = << >>) =>
                /\ exception.field # f
                /\ CurateReturned =>
                      /\ f \in DOMAIN results
                      /\ IF f \in DOMAIN existing_results
                         THEN results[f] = existing_results[f]
                         ELSE IsCanonicalEmpty(results[f])

\* the handler returned; one field without hits had no previous node, another
\* one kept a previous node that is not settled; a document answered for both
C4_Witness ==
    /\ CurateReturned
    /\ Len(extracted_information) >= 1
    /\ \E f, g \in all_fields :
          /\ HitsOf(f) = << >> /\ HitsOf(g) = << >>
          /\ f \notin DOMAIN existing_results
          /\ g \in DOMAIN existing_results
          /\ existing_results[g].match
          /\ ~Settled(existing_results[g])
          /\ results[g] = existing_results[g]

\* What holds of the two merges where the handler does not raise: the
\* conflicting merge of hits whose values are not lists, the unanimous merge of
\* hits whose values are not lists and whose explanations are strings.
MergeOfWellFormedHits ==
    CurateDone =>
        \A f \in all_fields :
            LET hits == HitsOf(f)
                n == Len(hits)
            IN ( /\ NotCarried(f)
                 /\ n >= 2
                 /\ \A i \in 1..n : hits[i].value.t # "list"
                 /\ SameValues(hits) => \A i \in 1..n : hits[i].explanation.t = "str" )
               => /\ exception.field # f
                  /\ CurateReturned =>
                       results[f] =
                          IF SameValues(hits)
                          THEN Node(TRUE, hits[1].value, PyStr(JoinExplanations(hits)),
                                    Some(SumConf(hits) \div n), Some(FALSE))
                          ELSE Node(TRUE,
                                    PyList([i \in 1..n |-> Elem(hits[i].value)]),
                                    PyList([i \in 1..n |-> Elem(hits[i].explanation)]),
                                    Some(MinConf(hits)), Some(TRUE))

\* the fields the planner of the specification selects
PlannedFields ==
    { f \in all_fields : f \notin DOMAIN results \/ ~results[f].match }

\* iterate_and_extract has just run (it returned, or an extraction call raised)
ExtractDone ==
    \/ pc = "curate_and_disambiguate"
    \/ pc = "raised" /\ exception.where = "iterate_and_extract"

\* C5: in every iteration the field set of the extraction requests is exactly
\* the set of fields of all_fields that have no node in the results or a node
\* with match = false; a field with match = true is in no later request.
C5_FieldPlanning ==
    ExtractDone =>
        /\ fields_to_extract = PlannedFields
        /\ \A j \in 1..Len(extracted_information) :
              DOMAIN extracted_information[j].fields = PlannedFields

\* a later iteration asked a document for one field only, the other being matched
C5_Witness ==
    /\ pc = "curate_and_disambiguate"
    /\ iteration >= 1
    /\ Len(extracted_information) >= 1
    /\ Cardinality(fields_to_extract) = 1
    /\ \E f \in all_fields \ fields_to_extract :
          f \in DOMAIN results /\ results[f].match /\ results[f].confidence = Some(0)

\* C6: when sufficient_info is false and the poll of the document source adds
\* no document, the router selects final_approval, never iterate_and_extract.
C6_ForcedStop ==
    [][ ( /\ pc = "route_sufficient_info"
          /\ ~sufficient_info
          /\ Len(document_list') = Len(document_list) )
        => pc' = "final_approval" ]_vars

\* the run is at final approval with a field that no document matched
C6_Witness ==
    /\ pc = "final_approval"
    /\ ~sufficient_info
    /\ \E f \in DOMAIN results : ~results[f].match

\* the run ended because a handler raised or never returned
Aborted == pc \in { "raised", "hung" }

C8_SufficientInfo ==
    /\ [](pc = "route_sufficient_info" =>
            (sufficient_info <=> \A f \in DOMAIN results : results[f].match))
    /\ [][ (pc = "route_sufficient_info" /\ sufficient_info)
           => pc' = "final_approval" ]_vars

\* final approval reached with every field matched
C8_Witness ==
    /\ pc = "final_approval"
    /\ sufficient_info
    /\ DOMAIN results = all_fields
    /\ \A f \in all_fields : results[f].match

\* the states of the specification's machine
Phase(node) ==
    CASE node = "iterate_and_extract" -> "Extracting"
      [] node = "curate_and_disambiguate" -> "Reconciling"
      [] node = "enough_confidence" -> "Resolving"
      [] node \in { "enough_information", "route_sufficient_info" } -> "Routing"
      [] node \in { "final_approval", "END" } -> "Terminated"
      [] OTHER -> "none"

\* C9: the run starts in Extracting; a handler that returns is followed by
\* Extracting -> Reconciling -> Resolving -> Routing; only Routing branches, to
\* Extracting or to Terminated; nothing leaves Terminated.
C9_ControlFlow ==
    /\ [][ pc = "prepare_initial_state" => pc' = "iterate_and_extract" ]_vars
    /\ [][ (Phase(pc) # "none" /\ pc' # pc /\ pc' \notin { "raised", "hung" })
           => << Phase(pc), Phase(pc') >> \in
                 { << "Extracting", "Reconciling" >>,
                   << "Reconciling", "Resolving" >>,
                   << "Resolving", "Routing" >>,
                   << "Routing", "Routing" >>,
                   << "Routing", "Extracting" >>,
                   << "Routing", "Terminated" >>,
                   << "Terminated", "Terminated" >> } ]_vars
    /\ [][ (pc = "enough_information" => pc' = "route_sufficient_info")
           /\ (pc = "final_approval" => pc' = "END")
           /\ (pc = "END" => pc' = "END") ]_vars

\* the router sent the run back to extraction
C9_Witness == pc = "iterate_and_extract" /\ iteration >= 1

\* C10: no document is sent to the extraction call more than once in a run:
\* only pending documents are queried, and a document whose call returned is
\* processed from then on, whatever it matched.
C10_QueriedOnce ==
    /\ \A f \in Files : queries[f] <= 1
    /\ \A i \in 1..Len(document_list) :
          /\ document_list[i].processed_state = "processed"
                => queries[document_list[i].filename] = 1
          /\ (document_list[i].processed_state = "pending" /\ pc # "raised")
                => queries[document_list[i].filename] = 0

\* a later iteration left alone a document that had matched no field
C10_Witness ==
    /\ pc = "curate_and_disambiguate"
    /\ iteration >= 1
    /\ Len(document_list) = 2
    /\ Len(extracted_information) = 1
    /\ \A f \in DOMAIN existing_results : ~existing_results[f].match
    /\ \A i \in 1..2 : document_list[i].processed_state = "processed"
                       /\ queries[document_list[i].filename] = 1

(***************************************************************************)
(* SpecNormalize: lines 144-150 applied once to any parsed response and    *)
(* any planned field set.  An object may hold entries of fields that were  *)
(* not requested.                                                          *)
(***************************************************************************)
Responses ==
    { JsonObject(e) :
        e \in [all_fields -> RawEntries \cup MoreRawEntries \cup OddRawEntries] }
    \cup { JsonOther }

InitNormalize ==
    /\ pc = "normalize_fields"
    /\ document_list = << >>
    /\ fields_to_extract \in (SUBSET all_fields) \ { {} }
    /\ extracted_information = << >>
    /\ results = EmptyDict
    /\ iteration = 0
    /\ sufficient_info = FALSE
    /\ exception = NoException
    /\ existing_results = EmptyDict
    /\ queries = [f \in Files |-> 0]
    /\ content_json \in Responses
    /\ stdin = NoInput
    /\ source_folder = << >>

\* lines 144 and 150: normalise the parsed response and store it
normalize_and_store ==
    /\ pc = "normalize_fields"
    /\ IF content_json.kind = "object"
       THEN /\ extracted_information' =
                 << [id |-> << "doc_", 1 >>,
                     fields |-> normalize_fields(content_json.entries, fields_to_extract)] >>
            /\ pc' = "normalized"
            /\ exception' = exception
       \* line 186: text.get of a list, a str, a number
       ELSE /\ extracted_information' = extracted_information
            /\ pc' = "raised"
            /\ exception' = Raised("AttributeError", "normalize_fields", "")
    /\ UNCHANGED << document_list, fields_to_extract, results, iteration, sufficient_info,
                    existing_results, queries, content_json, stdin, source_folder >>

NextNormalize == normalize_and_store

SpecNormalize == InitNormalize /\ [][NextNormalize]_vars

\* C11: after normalize_fields on a response object, the result holds exactly
\* the planned fields, and for each of them: (a) an absent or null entry gives
\* {match: false, value: null, explanation: null, confidence: 0}; (b) a
\* structured entry gives match as a boolean (false when missing or null, the
\* boolean itself when it is one), value and explanation as they came, and
\* confidence 0 when null; (c) any other entry gives match = true, the entry as
\* value, the unstructured-response marker and confidence 30.
C11_Normalization ==
    pc = "normalized" =>
        LET fields == extracted_information[1].fields
        IN /\ DOMAIN fields = fields_to_extract
           /\ \A f \in fields_to_extract :
                 LET val == content_json.entries[f]
                     node == fields[f]
                 IN /\ val.kind = "absent" =>
                          node = [match |-> FALSE, value |-> PyNone,
                                  explanation |-> PyNone, confidence |-> Some(0),
                                  has_conflict |-> None]
                    /\ val.kind = "dict" =>
                          /\ node.match \in BOOLEAN
                          /\ val.match = PyNone => ~node.match
                          /\ val.match = PyBool(TRUE) => node.match
                          /\ val.match = PyBool(FALSE) => ~node.match
                          /\ node.value = val.value
                          /\ node.explanation = val.explanation
                          /\ node.confidence =
                               (IF val.confidence = None THEN Some(0) ELSE val.confidence)
                          /\ node.has_conflict = None
                    /\ val.kind = "scalar" =>
                          node = [match |-> TRUE, value |-> val.value,
                                  explanation |-> UnstructuredMarker,
                                  confidence |-> Some(30), has_conflict |-> None]

\* a response with a structured entry whose confidence is null and a bare
\* value, both requested, has been normalised
C11_Witness ==
    /\ pc = "normalized"
    /\ \E f, g \in fields_to_extract :
          /\ content_json.entries[f].kind = "dict"
          /\ content_json.entries[f].match = PyBool(TRUE)
          /\ content_json.entries[f].confidence = None
          /\ extracted_information[1].fields[f].confidence = Some(0)
          /\ content_json.entries[g].kind = "scalar"
          /\ extracted_information[1].fields[g].confidence = Some(30)

(***************************************************************************)
(* The resolver (enough_confidence) in the loop.                           *)
(***************************************************************************)
\* the value is a list of more than one candidate
MultiElementList(v) == v.t = "list" /\ Len(v.l) > 1

\* a step of enough_confidence that read the answer of field f
Resolved(f) == pc = "enough_confidence" /\ f \in DOMAIN stdin'

\* the step ended in field f: the resolution of f raised or never returned
AbortedAt(f) == pc' \in { "raised", "hung" } /\ exception'.field = f

\* the selection that ended the prompts of an answer
FinalSelection(answer) == answer.typed[Len(answer.typed)]

\* C12: when enough_confidence returns, the fields it asked about in the
\* low-confidence pass are exactly the fields of the results with match = true,
\* a value that is not a multi-element list, and confidence < 80, confidence 0
\* included.
C12_LowConfidenceSelection ==
    [][ (pc = "enough_confidence" /\ pc' = "enough_information") =>
          { f \in DOMAIN stdin' : ~MultiElementList(results[f].value) }
          = { f \in DOMAIN results :
                /\ results[f].match
                /\ ~MultiElementList(results[f].value)
                /\ results[f].confidence # None
                /\ results[f].confidence[1] < 80 } ]_vars

\* C13: for every field asked about in the low-confidence pass, the resolution
\* does not fail; "keep as is" leaves the value as it was, a replacement Y
\* makes the value Y; confidence becomes 100; match, explanation and
\* has_conflict are as before.
C13_LowConfidenceRoundTrip ==
    [][ \A f \in all_fields :
          (Resolved(f) /\ ~MultiElementList(results[f].value)) =>
             /\ ~AbortedAt(f)
             /\ results'[f].value =
                  (IF FinalSelection(stdin'[f]) = Some(1)
                   THEN results[f].value
                   ELSE PyStr(stdin'[f].new_value))
             /\ results'[f].confidence = Some(100)
             /\ results'[f].match = results[f].match
             /\ results'[f].explanation = results[f].explanation
             /\ results'[f].has_conflict = results[f].has_conflict ]_vars

\* C14: for every field whose value is a list of n > 1 candidates, the
\* selection k with 1 <= k <= n makes the k-th candidate the value, the
\* selection n + 1 makes the new value typed the value, and confidence becomes
\* 100.
C14_MultiValueResolution ==
    [][ \A f \in all_fields :
          ( /\ Resolved(f)
            /\ MultiElementList(results[f].value)
            /\ Len(stdin'[f].typed) = 1
            /\ stdin'[f].typed[1] # None
            /\ stdin'[f].typed[1][1] \in 1..(Len(results[f].value.l) + 1) ) =>
             LET k == stdin'[f].typed[1][1]
                 candidates == results[f].value.l
             IN /\ ~AbortedAt(f)
                /\ results'[f].value =
                     (IF k <= Len(candidates)
                      THEN [t |-> candidates[k].t, s |-> candidates[k].s, l |-> << >>]
                      ELSE PyStr(stdin'[f].new_value))
                /\ results'[f].confidence = Some(100) ]_vars

\* C15: in both passes, when an invalid selection is followed by a valid one,
\* the resolver asks again and honours the valid one: the resolution of the
\* field does not fail, the field is confirmed (confidence 100), and a new
\* value selected is the value committed.
C15_InvalidSelection ==
    [][ \A f \in all_fields :
          (Resolved(f) /\ Len(stdin'[f].typed) = 2) =>
             /\ ~AbortedAt(f)
             /\ results'[f].confidence = Some(100)
             /\ FinalSelection(stdin'[f]) =
                   (IF MultiElementList(results[f].value)
                    THEN Some(Len(results[f].value.l) + 1)
                    ELSE Some(2))
                   => results'[f].value = PyStr(stdin'[f].new_value) ]_vars

\* What holds of the low-confidence pass where the text of the value has no
\* blank at its ends: the round trip of C13, also after an invalid selection.
RoundTripOfTrimmedValues ==
    [][ \A f \in all_fields :
          ( /\ Resolved(f)
            /\ ~MultiElementList(results[f].value)
            /\ results[f].value.t = "str"
            /\ Strip(results[f].value.s) = results[f].value.s ) =>
             /\ ~AbortedAt(f)
             /\ results'[f] =
                  [results[f] EXCEPT
                     !.value = IF FinalSelection(stdin'[f]) = Some(1)
                               THEN @ ELSE PyStr(stdin'[f].new_value),
                     !.confidence = Some(100)] ]_vars

(***************************************************************************)
(* Failures of the extraction of a document (iterate_and_extract).         *)
(***************************************************************************)
\* a step of iterate_and_extract in which the extraction of a document failed
\* with an exception of the given types
ExtractionFailed(types) ==
    /\ pc = "iterate_and_extract"
    /\ exception'.where = "iterate_and_extract"
    /\ exception'.type \in types

\* in such a step, the document whose extraction failed: it was asked and is
\* still pending
FailedDocument(i) ==
    /\ document_list'[i].processed_state = "pending"
    /\ queries'[document_list[i].filename] = queries[document_list[i].filename] + 1

\* the ids of the documents of an extraction mapping
IdsOf(extracted) == { extracted[j].id : j \in 1..Len(extracted) }

\* C16: when the extraction of a pending document raises an exception (other
\* than a transport or a parse failure), iterate_and_extract still queries
\* every other pending document and the run goes on to reconciliation.
C16_FailureIsolation ==
    [][ ExtractionFailed({ "AttributeError" }) =>
          /\ \A i \in 1..Len(document_list) :
                is_pending(document_list[i]) =>
                   queries'[document_list[i].filename] =
                      queries[document_list[i].filename] + 1
          /\ pc' = "curate_and_disambiguate" ]_vars

\* C17: when the extraction call of a document fails in transport, the document
\* stays pending, nothing of it enters the extraction mapping, and the run goes
\* on, so that a later iteration can query the document again.
C17_TransportFailure ==
    [][ ExtractionFailed({ "TransportError" }) =>
          /\ \A i \in 1..Len(document_list) :
                FailedDocument(i) =>
                   document_list[i].id \notin IdsOf(extracted_information')
          /\ pc' = "curate_and_disambiguate" ]_vars

\* C18: when the response of a document is not valid JSON, the call is made
\* once (it is not reissued in the iteration), the run goes on to
\* reconciliation, and the fields requested stay as they were in the results,
\* unmatched, to be planned again.
C18_ParseFailure ==
    [][ ExtractionFailed({ "ParseError" }) =>
          /\ \A i \in 1..Len(document_list) :
                FailedDocument(i) => queries'[document_list[i].filename] = 1
          /\ results' = results
          /\ \A f \in fields_to_extract' : f \in DOMAIN results => ~results[f].match
          /\ pc' = "curate_and_disambiguate" ]_vars

\* What holds of a failed extraction call: the document stays pending and has
\* no entry in the mapping, the documents before it are processed, the results
\* are untouched, and the run has ended in the exception.
FailedExtractionEndsRun ==
    [][ ExtractionFailed({ "TransportError", "ParseError", "AttributeError" }) =>
          /\ \A i \in 1..Len(document_list) :
                FailedDocument(i) =>
                   /\ document_list[i].id \notin IdsOf(extracted_information')
                   /\ queries'[document_list[i].filename] = 1
          /\ \E i \in 1..Len(document_list) : FailedDocument(i)
          /\ results' = results
          /\ pc' = "raised" ]_vars

(***************************************************************************)
(* SpecLoad: DocumentHub.load_documents called any number of times on a    *)
(* source folder of up to MaxFolderFiles files that changes between the    *)
(* calls, while iterate_and_extract writes processed_state back.           *)
(***************************************************************************)
\* number of files that can ever be in the source folder
MaxFolderFiles == 3

FolderFiles == 1..MaxFolderFiles

\* what glob can list: the files present, in a fixed order
Listings == { Ascending(S, MaxFolderFiles) : S \in SUBSET FolderFiles }

FilesOf(listing) == { listing[i] : i \in 1..Len(listing) }

InitLoad ==
    /\ pc = "load_documents"
    /\ document_list = << >>
    /\ fields_to_extract = all_fields
    /\ extracted_information = << >>
    /\ results = EmptyDict
    /\ iteration = 0
    /\ sufficient_info = FALSE
    /\ exception = NoException
    /\ existing_results = EmptyDict
    /\ queries = [f \in Files |-> 0]
    /\ content_json = Unbound
    /\ stdin = NoInput
    /\ source_folder = << >>

\* a call of load_documents: glob lists the folder, and the upload succeeds
\* for some of the files of a supported type
call_load_documents ==
    /\ pc = "load_documents"
    /\ \E listing \in Listings :
       \E accepted \in SUBSET FilesOf(listing) :
          /\ document_list' = load_documents(document_list, listing, accepted)
          /\ source_folder' = listing
    /\ UNCHANGED << pc, fields_to_extract, extracted_information, results, iteration,
                    sufficient_info, exception, existing_results, queries, content_json,
                    stdin >>

\* document_capture.py line 147: the agent marks a document of the list
write_back ==
    /\ pc = "load_documents"
    /\ \E i \in 1..Len(document_list) :
          /\ is_pending(document_list[i])
          /\ document_list' = [document_list EXCEPT ![i] = mark_processed(@)]
    /\ UNCHANGED << pc, fields_to_extract, extracted_information, results, iteration,
                    sufficient_info, exception, existing_results, queries, content_json,
                    stdin, source_folder >>

NextLoad == call_load_documents \/ write_back

SpecLoad == InitLoad /\ [][NextLoad]_vars

\* a step of load_documents that lists another folder or adds a document
LoadStep ==
    source_folder' # source_folder \/ Len(document_list') > Len(document_list)

\* no two entries of the list share a filename or an id
DistinctEntries ==
    \A i, j \in 1..Len(document_list) :
        i # j => /\ document_list[i].filename # document_list[j].filename
                 /\ document_list[i].id # document_list[j].id

\* a call of load_documents leaves the entries of the list as they are
EntriesKept ==
    LoadStep =>
        /\ Len(document_list') >= Len(document_list)
        /\ \A i \in 1..Len(document_list) : document_list'[i] = document_list[i]

\* C19 as stated: a call of load_documents that lists the same folder as the
\* call before adds no document; no two entries share a filename or an id; a
\* call leaves id, reference and processed_state of the entries as they are.
C19_ListingIdempotent ==
    /\ [][ source_folder' = source_folder
           => Len(document_list') = Len(document_list) ]_vars
    /\ []DistinctEntries
    /\ [][EntriesKept]_vars

\* C19, amended: a call of load_documents adds entries only for files it lists
\* that have no entry yet, each with processed_state pending - so, with the
\* folder unchanged, only for files that no earlier call could upload; no two
\* entries share a filename or an id; a call leaves id, reference and
\* processed_state of the entries as they are.
C19_ListingAddsOnlyNewFiles ==
    /\ [][ \A j \in (Len(document_list) + 1)..Len(document_list') :
              /\ document_list'[j].filename \in FilesOf(source_folder')
              /\ \A i \in 1..Len(document_list) :
                    document_list[i].filename # document_list'[j].filename
              /\ document_list'[j].processed_state = "pending" ]_vars
    /\ []DistinctEntries
    /\ [][EntriesKept]_vars

\* two calls have filled the list: the file listed first entered it after the
\* file listed second, which has been processed in between
C19_Witness ==
    /\ pc = "load_documents"
    /\ source_folder = << 1, 2 >>
    /\ Len(document_list) = 2
    /\ document_list[1].filename = 2
    /\ document_list[1].processed_state = "processed"
    /\ document_list[2].filename = 1
    /\ document_list[2].processed_state = "pending"

ArrivalEntries ==
    { RawDict(PyBool(FALSE), PyStr(<<"A", "B">>), PyStr(<<"e1">>), Some(50)),
      RawDict(PyBool(TRUE), PyStr(<<"A", "B">>), PyStr(<<"e1">>), Some(90)),
      RawDict(PyBool(TRUE), PyStr(<<"A", "B">>), PyNone, None),
      RawScalar(PyStr(<<" ", "C">>)) }

InitArrivals ==
    /\ pc = "prepare_initial_state"
    /\ document_list = << >>
    /\ fields_to_extract = all_fields
    /\ extracted_information = << >>
    /\ results = EmptyDict
    /\ iteration = 0
    /\ sufficient_info = FALSE
    /\ exception = NoException
    /\ existing_results = EmptyDict
    /\ queries = [f \in 1..MaxArrivals |-> 0]
    /\ content_json = Unbound
    /\ stdin = NoInput
    /\ source_folder = << >>

NextArrivals ==
    \/ prepare_initial_state_in("long")
    \/ iterate_and_extract_of(ArrivalEntries)
    \/ curate_and_disambiguate
    \/ enough_confidence
    \/ enough_information
    \/ route_sufficient_info_in("long")
    \/ final_approval

SpecArrivals == InitArrivals /\ [][NextArrivals]_vars


\* C21: max_iterations is not a stop condition.  The router goes back to
\* iterate_and_extract exactly when sufficient_info is false and the poll
\* made the document list longer, whatever the iteration counter is -- also
\* when it has reached or passed max_iterations -- and it leaves the counter
\* and the flag as they are.
C21_NoIterationBound ==
    [][ pc = "route_sufficient_info"
        => /\ pc' = IF ~sufficient_info /\ Len(document_list') > Len(document_list)
                    THEN "iterate_and_extract"
                    ELSE "final_approval"
           /\ iteration' = iteration
           /\ sufficient_info' = sufficient_info ]_vars

\* the router is reached with the counter above max_iterations, after a pass
\* that was started with the counter at max_iterations and a new document
C21_Witness ==
    /\ pc = "route_sufficient_info"
    /\ iteration > max_iterations
    /\ ~sufficient_info
    /\ \E i \in 1..Len(document_list) : queries[document_list[i].filename] = 1
    /\ Len(document_list) >= max_iterations


\* C22: the iteration counter is 0 before the first pass, every step of
\* enough_information adds exactly 1 to it and no other step changes it, so
\* at the router it is the number of passes made (at least 1), and a pass
\* that starts with the counter at n reaches the router with n + 1.
C22_IterationCounter ==
    /\ [](pc = "prepare_initial_state" => iteration = 0)
    /\ [][ iteration' = IF pc = "enough_information" THEN iteration + 1
                        ELSE iteration ]_vars
    /\ [](pc = "route_sufficient_info" => iteration >= 1)

\* the router after the fourth pass: a pass without documents, then three
\* passes with one new document each
C22_Witness ==
    /\ pc = "route_sufficient_info"
    /\ iteration = 4
    /\ Len(document_list) = 3
    /\ \A i \in 1..Len(document_list) : queries[document_list[i].filename] = 1


\* C23: per-iteration evidence.  The mapping that iterate_and_extract leaves
\* holds only documents that were pending when it started and that it
\* queried itself, no other step adds a document to it, and
\* curate_and_disambiguate gives a field without a hit in that mapping the
\* node the results already had (the empty node if they had none): what
\* earlier documents yielded is in the results only.
C23_PerIterationEvidence ==
    [][ /\ pc = "iterate_and_extract"
           => \A j \in 1..Len(extracted_information') :
                 \E i \in 1..Len(document_list) :
                    /\ document_list[i].id = extracted_information'[j].id
                    /\ is_pending(document_list[i])
                    /\ queries'[document_list[i].filename]
                          = queries[document_list[i].filename] + 1
        /\ pc # "iterate_and_extract"
           => IdsOf(extracted_information') = IdsOf(extracted_information)
        /\ (pc = "curate_and_disambiguate" /\ pc' # "raised")
           => \A f \in all_fields :
                 collect_hits(extracted_information, f) = << >>
                    => results'[f] = IF f \in DOMAIN results THEN results[f]
                                     ELSE EmptyResultNode ]_vars

\* a later pass reconciles the one new document, which has no hit for a
\* field that an earlier document matched
C23_Witness ==
    /\ pc = "enough_confidence"
    /\ iteration >= 1
    /\ Len(document_list) = 3
    /\ IdsOf(extracted_information) = { document_list[3].id }
    /\ \E f \in all_fields :
          /\ existing_results[f].match
          /\ results[f] = existing_results[f]
          /\ collect_hits(extracted_information, f) = << >>
    /\ \E f \in all_fields : ~existing_results[f].match /\ results[f].match


\* C24: in every reachable state of the loop every node of the results with
\* match = false has a null value, a null explanation and no confidence --
\* also when a document answered match = false together with a value.
C24_UnmatchedNodesEmpty ==
    \A f \in DOMAIN results :
       ~results[f].match
          => /\ results[f].value = PyNone
             /\ results[f].explanation = PyNone
             /\ results[f].confidence = None

\* a reconciliation has left a field unmatched although the document of the
\* pass answered for it with a value, an explanation and a confidence
C24_Witness ==
    /\ pc = "enough_confidence"
    /\ \E f \in DOMAIN results :
          /\ ~results[f].match
          /\ \E j \in 1..Len(extracted_information) :
                /\ f \in DOMAIN extracted_information[j].fields
                /\ ~extracted_information[j].fields[f].match
                /\ extracted_information[j].fields[f].value # PyNone
                /\ extracted_information[j].fields[f].confidence = Some(50)


\* C25: after every reconciliation the results hold a node for every field
\* of all_fields and for no other name, in the first pass and in every later
\* one, so sufficient_info = true means that every field of all_fields is
\* matched.
C25_OneNodePerField ==
    /\ pc \in { "enough_confidence", "enough_information", "route_sufficient_info",
                "final_approval", "END" }
          => DOMAIN results = all_fields
    /\ sufficient_info
          => \A f \in all_fields : f \in DOMAIN results /\ results[f].match

\* a later pass asked for one field only and the run ended with
\* sufficient_info = true and both fields in the results
C25_Witness ==
    /\ pc = "final_approval"
    /\ sufficient_info
    /\ iteration >= 2
    /\ Cardinality(fields_to_extract) = 1
    /\ DOMAIN results = all_fields


\* C26: match is monotonic.  Once the node of a field has match = true, no
\* step of the run takes the field out of the results or back to match =
\* false, and every reconciliation leaves the node exactly as it was -- also
\* the node that fails the carry-over test because it carries a conflict or
\* a confidence below 10.
C26_MatchMonotonic ==
    [][ \A f \in DOMAIN results :
           results[f].match
              => /\ f \in DOMAIN results'
                 /\ results'[f].match
                 /\ pc = "curate_and_disambiguate" => results'[f] = results[f] ]_vars

\* a later reconciliation, with a new document in the mapping, has kept a
\* matched node that carries a conflict and so fails the carry-over test
C26_Witness ==
    /\ pc = "enough_confidence"
    /\ iteration >= 1
    /\ Len(extracted_information) >= 1
    /\ \E f \in all_fields :
          /\ existing_results[f].match
          /\ existing_results[f].has_conflict = Some(TRUE)
          /\ carry_over_test(existing_results, f) = "merge"
          /\ results[f] = existing_results[f]

\* the same for a matched node whose confidence is below 10
MatchedNodeOfNoConfidenceKept ==
    /\ pc = "enough_confidence"
    /\ iteration >= 1
    /\ Len(extracted_information) >= 1
    /\ \E f \in all_fields :
          /\ existing_results[f].match
          /\ existing_results[f].confidence = Some(0)
          /\ carry_over_test(existing_results, f) = "merge"
          /\ results[f] = existing_results[f]


\* C27: when enough_confidence has returned, every node of the results with
\* match = true has a value that is not a list and a confidence of at least
\* 80.
C27_ResolvedAfterPass ==
    pc = "enough_information"
       => \A f \in DOMAIN results :
             results[f].match
                => /\ results[f].value.t # "list"
                   /\ results[f].confidence # None
                   /\ results[f].confidence[1] >= LowConfidenceThreshold

\* what does hold when enough_confidence has returned: the value of a matched
\* node is not a list, and its confidence is at least 80 or is 0
ResolvedOrNoConfidence ==
    pc = "enough_information"
       => \A f \in DOMAIN results :
             results[f].match
                => /\ results[f].value.t # "list"
                   /\ results[f].confidence # None
                   /\ \/ results[f].confidence[1] >= LowConfidenceThreshold
                      \/ results[f].confidence[1] = 0


\* C28: a field is presented for resolution at most once in a run.  A field
\* that enough_confidence asked about and resolved has confidence 100 and a
\* string value when the step returns; a node with confidence 100 and a
\* string value is never asked about and keeps both in every later step.
C28_ResolvedOnce ==
    [][ /\ \A f \in all_fields :
              (Resolved(f) /\ pc' = "enough_information")
                 => /\ results'[f].confidence = Some(ConfirmedConfidence)
                    /\ results'[f].value.t = "str"
        /\ \A f \in DOMAIN results :
              (results[f].confidence = Some(ConfirmedConfidence)
                 /\ results[f].value.t = "str")
                 => /\ ~Resolved(f)
                    /\ f \in DOMAIN results'
                    /\ results'[f] = results[f] ]_vars

\* the resolver of a later pass has returned: it asked about the field of
\* low confidence matched in that pass and not about the field whose
\* conflict an earlier pass resolved
C28_Witness ==
    /\ pc = "enough_information"
    /\ iteration >= 1
    /\ \E f, g \in all_fields :
          /\ DOMAIN stdin = {g}
          /\ existing_results[f].confidence = Some(ConfirmedConfidence)
          /\ existing_results[f].has_conflict = Some(TRUE)
          /\ results[f] = existing_results[f]
          /\ ~existing_results[g].match
          /\ results[g].confidence = Some(ConfirmedConfidence)


\* C29: whenever the router has sent the run back to iterate_and_extract
\* (iteration >= 1), the set of fields the pass will request is not empty and
\* the document list holds at least one pending document.
C29_NoEmptyPass ==
    (pc = "iterate_and_extract" /\ iteration >= 1)
       => /\ get_fields_list(fields_to_extract, results) # {}
          /\ \E i \in 1..Len(document_list) : is_pending(document_list[i])

\* the third pass is about to start, with one field left to request and one
\* new document among processed ones
C29_Witness ==
    /\ pc = "iterate_and_extract"
    /\ iteration = 2
    /\ Cardinality(get_fields_list(fields_to_extract, results)) = 1
    /\ Cardinality({ i \in 1..Len(document_list) : is_pending(document_list[i]) }) = 1
    /\ \E i \in 1..Len(document_list) : ~is_pending(document_list[i])


\* C30: reconciliation is total.  For every previous results and every
\* extraction mapping made of nodes that normalize_fields can produce,
\* curate_and_disambiguate returns, without an exception, the results with a
\* node for every field of all_fields.
C30_ReconciliationTotal ==
    CurateDone
       => /\ pc # "raised"
          /\ exception = NoException
          /\ \A f \in all_fields : f \in DOMAIN results

=============================================================================
